---- MODULE Spec2Model ----
(***************************************************************************)
(* Hybrid PDF text extraction (api_files/pdf_processor.py).                *)
(*                                                                         *)
(* A Python str is a sequence of one-character strings.  Python's None is  *)
(* the value None below, which is no sequence of characters.  The document *)
(* library (pdfplumber), the rasterizer (pdf2image) and the recognition    *)
(* engine (pytesseract) are outside the repository: their results are      *)
(* nondeterministic choices over the outcomes they can produce.            *)
(***************************************************************************)
EXTENDS Integers, Sequences, FiniteSets, TLC

\* ------------------------------------------------------------------ bounds

\* Largest number of pages of an input document.
MaxPages == 3

\* Largest of the small min_chars thresholds tried next to the default.
MaxThreshold == 2

\* ------------------------------------------------------- program constants

DEFAULT_MIN_CHARS == 50

DEFAULT_MAX_IMAGE_DIMENSION == 3000

DEFAULT_RESIZED_DIMENSION == 2000

\* ------------------------------------------------------------------- state

VARIABLES
    doc,            \* pdf_data, as the document library sees it
    use_ocr,        \* the caller's flag
    min_chars,      \* self.min_chars
    pc,             \* where the extract_text call stands
    response,       \* the report under construction
    pdf_pages,      \* extract_text: the parsed pages
    ocr_pages,      \* extract_text: the page numbers handed to recognition
    final_results,  \* extract_text: (page_num, text, method) per page
    images,         \* recognition: the rasterizer's batch (page each image shows)
    page_images,    \* recognition: the (image, page_num) pairs to recognize
    max_workers,    \* recognition: width of the worker pool
    futures,        \* recognition: page_num -> the task's future
    ocr_results,    \* recognition: the shared results dict
    engine_calls,   \* recognition: page_num -> calls of the engine on its image
    writes,         \* recognition: page_num -> the writes of its key, each with
                    \* whether _results_lock was held
    split_input,    \* split_pdf: pdf_data as PyPDF2 sees it, and the arguments
    split_pc,       \* where the split_pdf call stands
    split_response, \* split_pdf: the response under construction
    split_idx,      \* split_pdf: the loop variable
    norm_text,      \* the text handed to the normalisation
    norm_pc,        \* how often the normalisation was applied to it
    norm_result,    \* the normalised text after each application
    image_size,     \* image.size of the image handed to _resize_image_if_needed
    max_image_dimension, \* self.max_image_dimension
    resize_pc,      \* whether _resize_image_if_needed has run
    resized,        \* what _resize_image_if_needed returned or raised
    work_queue,     \* PROCESS_EXECUTOR: the queued work items, oldest first
    blocked,        \* PROCESS_EXECUTOR: threads in a helper, inside future.result()
    running,        \* PROCESS_EXECUTOR: threads running an extraction or a split
    finished,       \* futures of extractions or splits that are done and not yet read
    arrived,        \* requests the endpoints have handed to the executor
    completed       \* requests whose helper has returned

vars ==
    <<doc, use_ocr, min_chars, pc, response, pdf_pages, ocr_pages, final_results,
      images, page_images, max_workers, futures, ocr_results, engine_calls, writes,
      split_input, split_pc, split_response, split_idx,
      norm_text, norm_pc, norm_result,
      image_size, max_image_dimension, resize_pc, resized,
      work_queue, blocked, running, finished, arrived, completed>>

inputs == <<doc, use_ocr, min_chars>>

splitter == <<split_input, split_pc, split_response, split_idx>>

normalizer == <<norm_text, norm_pc, norm_result>>

resizer == <<image_size, max_image_dimension, resize_pc, resized>>

service == <<work_queue, blocked, running, finished, arrived, completed>>

extraction ==
    <<doc, use_ocr, min_chars, pc, response, pdf_pages, ocr_pages, final_results,
      images, page_images, max_workers, futures, ocr_results, engine_calls, writes>>

recognition ==
    <<images, page_images, max_workers, futures, ocr_results, engine_calls, writes>>

\* ------------------------------------------------------------ Python values

None == <<"\\None">>

NL == "\n"

\* The characters Python's \s and str.strip() treat as whitespace.
Whitespace == {" ", NL, "\t"}

IsSpace(c) == c \in Whitespace

\* bool(text) for an Optional[str]
Truthy(text) == text # None /\ text # <<>>

\* str.lstrip(), str.rstrip(), str.strip()
RECURSIVE LStrip(_)
LStrip(s) == IF s # <<>> /\ IsSpace(Head(s)) THEN LStrip(Tail(s)) ELSE s

RECURSIVE RStrip(_)
RStrip(s) ==
    IF s # <<>> /\ IsSpace(s[Len(s)]) THEN RStrip(SubSeq(s, 1, Len(s) - 1)) ELSE s

Strip(s) == RStrip(LStrip(s))

\* str.split(sep) for a one-character separator: the fields between the
\* separators, empty fields included.
RECURSIVE SplitAt(_, _, _)
SplitAt(s, sep, field) ==
    IF s = <<>> THEN <<field>>
    ELSE IF Head(s) = sep THEN <<field>> \o SplitAt(Tail(s), sep, <<>>)
    ELSE SplitAt(Tail(s), sep, Append(field, Head(s)))

Split(s, sep) == SplitAt(s, sep, <<>>)

\* sep.join(parts)
RECURSIVE Join(_, _)
Join(sep, parts) ==
    IF parts = <<>> THEN <<>>
    ELSE IF Len(parts) = 1 THEN parts[1]
    ELSE parts[1] \o sep \o Join(sep, Tail(parts))

\* str(n) for n >= 0
Digit(d) == <<"0", "1", "2", "3", "4", "5", "6", "7", "8", "9">>[d + 1]

RECURSIVE Str(_)
Str(n) == IF n < 10 THEN <<Digit(n)>> ELSE Append(Str(n \div 10), Digit(n % 10))

\* text.startswith("[")
StartsWithBracket(text) == text # <<>> /\ Head(text) = "["

\* -------------------------------------------------------- text normalisation

\* Stand-ins for the character classes of _fix_japanese_spacing:
\*   "J", "K"  two hiragana, katakana or kanji characters,
\*   "."  a closing mark inside U+3000-303F (the ideographic full stop),
\*   "<"  an opening mark inside U+3000-303F (the left corner bracket).
JapaneseLetter == {"J", "K"}
JapaneseChar == JapaneseLetter \cup {".", "<"}
ClosingPunct == {"."}
OpeningPunct == {"<"}

\* Length of the longest whitespace run of s that starts at position i.
RECURSIVE SpaceRun(_, _)
SpaceRun(s, i) == IF i <= Len(s) /\ IsSpace(s[i]) THEN 1 + SpaceRun(s, i + 1) ELSE 0

\* re.sub(f"({japanese_char})\\s+({japanese_char})", r"\1\2", text): matches
\* are found left to right and do not overlap, so the second character of a
\* match is not the first character of the next one.  japanese_char is
\* itself a group, so that groups 1 and 2 are both the first character of
\* the match: the replacement is the first character, twice.
RECURSIVE SubBetweenJapanese(_, _)
SubBetweenJapanese(s, i) ==
    IF i > Len(s) THEN <<>>
    ELSE LET n == SpaceRun(s, i + 1)
             j == i + n + 1
         IN  IF s[i] \in JapaneseChar /\ n >= 1 /\ j <= Len(s) /\ s[j] \in JapaneseChar
             THEN <<s[i], s[i]>> \o SubBetweenJapanese(s, j + 1)
             ELSE <<s[i]>> \o SubBetweenJapanese(s, i + 1)

\* re.sub(r"\s+([closing marks])", r"\1", text)
RECURSIVE SubBeforeClosing(_, _)
SubBeforeClosing(s, i) ==
    IF i > Len(s) THEN <<>>
    ELSE LET n == SpaceRun(s, i)
             j == i + n
         IN  IF n >= 1 /\ j <= Len(s) /\ s[j] \in ClosingPunct
             THEN <<s[j]>> \o SubBeforeClosing(s, j + 1)
             ELSE <<s[i]>> \o SubBeforeClosing(s, i + 1)

\* re.sub(r"([opening marks])\s+", r"\1", text)
RECURSIVE SubAfterOpening(_, _)
SubAfterOpening(s, i) ==
    IF i > Len(s) THEN <<>>
    ELSE LET n == SpaceRun(s, i + 1)
         IN  IF s[i] \in OpeningPunct /\ n >= 1
             THEN <<s[i]>> \o SubAfterOpening(s, i + n + 1)
             ELSE <<s[i]>> \o SubAfterOpening(s, i + 1)

\* re.sub(r"\s+", " ", text)
RECURSIVE CollapseSpaces(_, _)
CollapseSpaces(s, i) ==
    IF i > Len(s) THEN <<>>
    ELSE LET n == SpaceRun(s, i)
         IN  IF n >= 1 THEN <<" ">> \o CollapseSpaces(s, i + n)
             ELSE <<s[i]>> \o CollapseSpaces(s, i + 1)

\* re.sub(r"\s+", "", text)
RemoveSpaces(s) == SelectSeq(s, LAMBDA c : ~IsSpace(c))

\* PDFProcessor._fix_japanese_spacing
FixJapaneseSpacing(text) ==
    IF ~Truthy(text) THEN text
    ELSE LET t1 == SubBetweenJapanese(text, 1)
             t2 == SubBeforeClosing(t1, 1)
             t3 == SubAfterOpening(t2, 1)
             t4 == CollapseSpaces(t3, 1)
         IN  Strip(t4)

\* PDFProcessor._clean_text
CleanText(text) ==
    IF ~Truthy(text) THEN <<>>
    ELSE LET lines == Split(text, NL)
             stripped == [i \in 1..Len(lines) |-> Strip(lines[i])]
         IN  Join(<<NL>>, SelectSeq(stripped, LAMBDA line : line # <<>>))

\* The normalisation of a recognized text in _process_single_page_ocr.
NormalizeText(text) == CleanText(FixJapaneseSpacing(text))

\* PDFProcessor._is_text_rich_page (threshold: min_chars if given, else
\* self.min_chars)
IsTextRichPage(page_text, threshold) ==
    IF ~Truthy(page_text) THEN FALSE
    ELSE Len(RemoveSpaces(page_text)) >= threshold

\* ------------------------------------------------------------ fixed strings

PDF == <<"P", "D", "F">>

OCR == <<"O", "C", "R">>

PDF_ONLY == <<"P", "D", "F", "_", "O", "N", "L", "Y">>

OCR_PENDING == <<"O", "C", "R", "_", "P", "E", "N", "D", "I", "N", "G">>

NoTextDetected ==
    <<"[", "N", "o", " ", "t", "e", "x", "t", " ", "d", "e", "t", "e", "c",
      "t", "e", "d", "]">>

NoTextExtracted ==
    <<"[", "N", "o", " ", "t", "e", "x", "t", " ", "c", "o", "u", "l", "d",
      " ", "b", "e", " ", "e", "x", "t", "r", "a", "c", "t", "e", "d", " ",
      "f", "r", "o", "m", " ", "t", "h", "i", "s", " ", "P", "D", "F", "]">>

OcrErrorPrefix == <<"[", "O", "C", "R", " ", "E", "r", "r", "o", "r", ":", " ">>

ThreadingErrorPrefix ==
    <<"[", "T", "h", "r", "e", "a", "d", "i", "n", "g", " ", "E", "r", "r",
      "o", "r", ":", " ">>

PagePrefix == <<"P", "a", "g", "e", " ">>

\* ---------------------------------------------------------------- exceptions

\* An exception is [type |-> class name, msg |-> str(e)].  The message of a
\* document-level error is only ever formatted, never inspected: it is kept
\* as a sequence of pieces rather than of single characters.
ExceptionT == <<"E", "x", "c", "e", "p", "t", "i", "o", "n">>

ValueErrorT == <<"V", "a", "l", "u", "e", "E", "r", "r", "o", "r">>

TypeErrorT == <<"T", "y", "p", "e", "E", "r", "r", "o", "r">>

TesseractErrorT ==
    <<"T", "e", "s", "s", "e", "r", "a", "c", "t", "E", "r", "r", "o", "r">>

\* The classes `except Exception` catches, among those the model raises.
ExceptionSubclasses == {ExceptionT, ValueErrorT, TypeErrorT, TesseractErrorT}

NoException == [type |-> None, msg |-> None]

OpenError ==
    [type |-> ExceptionT, msg |-> <<"Error opening PDF with pdfplumber: ", "open failed">>]

NoPageData ==
    [type |-> ValueErrorT, msg |-> <<"Could not extract any page data from PDF">>]

\* raise Exception(f"Error in OCR processing: {e}")
OcrProcessingError(e) ==
    [type |-> ExceptionT, msg |-> <<"Error in OCR processing: ">> \o e.msg]

RasterizerError == [type |-> ExceptionT, msg |-> <<"Unable to get page count">>]

\* os.cpu_count() * 2 with os.cpu_count() None
CpuCountTypeError ==
    [type |-> TypeErrorT, msg |-> <<"unsupported operand type(s) for *">>]

\* ThreadPoolExecutor(max_workers=0)
MaxWorkersError ==
    [type |-> ValueErrorT, msg |-> <<"max_workers must be greater than 0">>]

EngineFault ==
    [type |-> TesseractErrorT,
     msg |-> <<"e", "n", "g", "i", "n", "e", " ", "f", "a", "u", "l", "t">>]

\* f"Extraction Failed: {type(e).__name__} - {str(e)}"
ExtractionFailed(e) == <<"Extraction Failed: ">> \o e.type \o <<" - ">> \o e.msg

\* f"[OCR Error: {type(e).__name__} - {str(e)}]"
OcrErrorText(e) == OcrErrorPrefix \o e.type \o <<" ", "-", " ">> \o e.msg \o <<"]">>

\* f"[Threading Error: {str(e)}]"
ThreadingErrorText(e) == ThreadingErrorPrefix \o e.msg \o <<"]">>

\* ------------------------------------------------------------------ inputs

\* page.extract_text() raising on a corrupt page object
ExtractRaises == <<"\\raises">>

\* pytesseract.image_to_string: it raises, or returns the recognized text.
EngineRaises == [ok |-> FALSE, exc |-> EngineFault, text |-> <<>>]

EngineReturns(t) == [ok |-> TRUE, exc |-> NoException, text |-> t]

\* pytesseract.image_to_string is called without a timeout: a tesseract
\* process that never exits keeps the call from returning or raising.
EngineHangs == [ok |-> FALSE, exc |-> NoException, text |-> <<>>]

\* The bytes of a page decide what page.extract_text() yields for it (an
\* exception, None, or a text) and what the engine makes of its image:
\*   a page of text, recognized with stray whitespace,
\*   a page of text that begins with a bracket, recognized likewise,
\*   a scanned page without embedded text, recognized with stray whitespace,
\*   a blank page: no embedded text, and the engine recognizes nothing,
\*   a corrupt page: text extraction raises and the engine faults.
PageKinds ==
    {[extract |-> <<" ", "a", NL>>, engine |-> EngineReturns(<<NL, "c", " ">>)],
     [extract |-> <<"[", "a">>, engine |-> EngineReturns(<<"[", "b">>)],
     [extract |-> None, engine |-> EngineReturns(<<"b", " ", NL>>)],
     [extract |-> None, engine |-> EngineReturns(<<>>)],
     [extract |-> ExtractRaises, engine |-> EngineRaises]}

\* A document is what the libraries make of the bytes: whether
\* pdfplumber.open accepts them, and the pages.
Documents ==
    {[openable |-> FALSE, pages |-> <<>>]} \cup
    {[openable |-> TRUE, pages |-> ps] :
        ps \in UNION {[1..n -> PageKinds] : n \in 0..MaxPages}}

\* Documents with scanned pages on which the engine may never return:
\*   a page of text,
\*   a scanned page the engine recognizes,
\*   a scanned page on which the engine hangs.
HangPageKinds ==
    {[extract |-> <<"a", "b">>, engine |-> EngineReturns(<<"a", "b">>)],
     [extract |-> None, engine |-> EngineReturns(<<"b">>)],
     [extract |-> None, engine |-> EngineHangs]}

HangDocuments ==
    {[openable |-> TRUE, pages |-> ps] :
        ps \in UNION {[1..n -> HangPageKinds] : n \in 1..MaxPages}}

\* Configured thresholds (PDFProcessor(min_chars=...)): small ones, which
\* the short texts of the model can meet, and the default.
Thresholds == 0..MaxThreshold \cup {DEFAULT_MIN_CHARS}

\* os.cpu_count(): None when undetermined, else the number of logical cores.
CpuUndetermined == 0 - 1

CpuCounts == {CpuUndetermined, 1}

\* ------------------------------------------------------------------- dicts

\* A Python dict is the function from its keys to their values (the code
\* never iterates ocr_results, so the insertion order is left out).
EmptyDict == [k \in {} |-> None]

\* d[k] = v
DictSet(d, k, v) == [x \in DOMAIN d \cup {k} |-> IF x = k THEN v ELSE d[x]]

\* d.get(k, default)
DictGet(d, k, default) == IF k \in DOMAIN d THEN d[k] ELSE default

SeqRange(xs) == {xs[i] : i \in 1..Len(xs)}

MinOf(S) == CHOOSE x \in S : \A y \in S : x <= y

MaxOf(S) == CHOOSE x \in S : \A y \in S : x >= y

\* --------------------------------------------------- the sequential stages

\* One iteration of the page loop of _extract_text_from_pdf_memory.
PageData(page_num, outcome, threshold) ==
    IF outcome = ExtractRaises
    THEN [page_num |-> page_num, text |-> <<>>, is_rich |-> FALSE]
    ELSE LET cleaned_text == IF Truthy(outcome) THEN CleanText(outcome) ELSE <<>>
         IN  [page_num |-> page_num, text |-> cleaned_text,
              is_rich |-> IsTextRichPage(cleaned_text, threshold)]

\* As ExtractTextFromPdfMemory, without the try/except around one page: the
\* page's exception reaches the handler around pdfplumber.open.
ExtractTextFromPdfMemoryNoPageGuard(document, threshold) ==
    IF ~document.openable
           \/ \E i \in 1..Len(document.pages) : document.pages[i].extract = ExtractRaises
    THEN [exc |-> OpenError, pages_data |-> <<>>]
    ELSE [exc |-> NoException,
          pages_data |-> [i \in 1..Len(document.pages) |->
                              PageData(i, document.pages[i].extract, threshold)]]

\* As ExtractTextFromPdfMemory, with a page skipped when its extraction
\* raises (`continue` in place of the append of lines 132-136).
ExtractTextFromPdfMemoryDropsFailedPage(document, threshold) ==
    IF ~document.openable
    THEN [exc |-> OpenError, pages_data |-> <<>>]
    ELSE LET all == [i \in 1..Len(document.pages) |->
                        PageData(i, document.pages[i].extract, threshold)]
             kept == SelectSeq([i \in 1..Len(all) |-> i],
                         LAMBDA i : document.pages[i].extract # ExtractRaises)
         IN  [exc |-> NoException, pages_data |-> [k \in 1..Len(kept) |-> all[kept[k]]]]

\* PDFProcessor._extract_text_from_pdf_memory: the exception it raises
\* (NoException when it returns) and the pages_data it returns.
ExtractTextFromPdfMemory(document, threshold) ==
    IF ~document.openable
    THEN [exc |-> OpenError, pages_data |-> <<>>]
    ELSE [exc |-> NoException,
          pages_data |-> [i \in 1..Len(document.pages) |->
                              PageData(i, document.pages[i].extract, threshold)]]

\* As ParseStep, without `if not pdf_pages: raise ValueError(...)`.
ParseStepNoEmptyCheck(document, threshold) ==
    ExtractTextFromPdfMemory(document, threshold)

\* Step 1 of extract_text: the parse and the zero-page guard.
ParseStep(document, threshold) ==
    LET got == ExtractTextFromPdfMemory(document, threshold)
    IN  IF got.exc # NoException THEN got
        ELSE IF got.pages_data = <<>> THEN [exc |-> NoPageData, pages_data |-> <<>>]
        ELSE got

\* Step 2 of extract_text, for one page: its entry of final_results.
PendingResult(pg, useOcr) ==
    IF pg.is_rich THEN [page_num |-> pg.page_num, text |-> pg.text, method |-> PDF]
    ELSE IF useOcr
    THEN [page_num |-> pg.page_num, text |-> pg.text, method |-> OCR_PENDING]
    ELSE [page_num |-> pg.page_num,
          text |-> IF Truthy(pg.text) THEN pg.text ELSE NoTextDetected,
          method |-> PDF_ONLY]

\* As OcrPagesOf, with the page appended outside the `else` of `if is_rich`.
OcrPagesOfEveryPage(pages, useOcr) ==
    LET asked == SelectSeq(pages, LAMBDA pg : useOcr)
    IN  [i \in 1..Len(asked) |-> asked[i].page_num]

\* Step 2 of extract_text: ocr_pages and the pdf_pages counter.
OcrPagesOf(pages, useOcr) ==
    LET poor == SelectSeq(pages, LAMBDA pg : ~pg.is_rich /\ useOcr)
    IN  [i \in 1..Len(poor) |-> poor[i].page_num]

\* As PdfPagesCount, without the `+= 1` of the PDF_ONLY branch.
PdfPagesCountRichOnly(pages, useOcr) ==
    Len(SelectSeq(pages, LAMBDA pg : pg.is_rich))

PdfPagesCount(pages, useOcr) ==
    Len(SelectSeq(pages, LAMBDA pg : pg.is_rich \/ ~useOcr))

\* As PageImages, with the images paired with the requested page numbers in
\* their order: the k-th image with the k-th requested page.
PageImagesByPosition(imgs, i, min_page, page_numbers) ==
    LET n == IF Len(imgs) < Len(page_numbers) THEN Len(imgs) ELSE Len(page_numbers)
    IN  [k \in 1..n |-> [image |-> imgs[k], page_num |-> page_numbers[k]]]

\* "Map images to their actual page numbers": image i of the batch is taken
\* to be page min_page + i and kept when that page was requested.
RECURSIVE PageImages(_, _, _, _)
PageImages(imgs, i, min_page, page_numbers) ==
    IF i > Len(imgs) THEN <<>>
    ELSE LET page_num == min_page + (i - 1)
             rest == PageImages(imgs, i + 1, min_page, page_numbers)
         IN  IF page_num \in SeqRange(page_numbers)
             THEN <<[image |-> imgs[i], page_num |-> page_num]>> \o rest
             ELSE rest

\* As MaxWorkers, with one worker per page whatever the number of cores.
MaxWorkersPerPage(cpus, n) == n

\* min(os.cpu_count() * 2 or 4, len(page_images)), for a determined count
MaxWorkers(cpus, n) ==
    LET width == IF cpus * 2 # 0 THEN cpus * 2 ELSE 4
    IN  IF width < n THEN width ELSE n

\* As EngineCalls, with the engine called a second time when it raised.
EngineCallsRetryOnFault(calls, page_num, outcome) ==
    [calls EXCEPT ![page_num] = IF outcome = EngineRaises THEN @ + 2 ELSE @ + 1]

\* The calls of pytesseract.image_to_string so far, after
\* _process_single_page_ocr ran for page_num: its try block calls the engine
\* once, whatever the call does.
EngineCalls(calls, page_num, outcome) == [calls EXCEPT ![page_num] = @ + 1]

\* PDFProcessor._process_single_page_ocr: what the future of the task holds.
\* Every exception raised inside its try block (grayscale conversion, resize,
\* engine call) is caught and becomes the page's text; the engine's fault
\* stands for all of them.
ProcessSinglePageOcrNoCatch(page_num, outcome) ==
    IF outcome.ok
    THEN [raised |-> FALSE, exc |-> NoException, page_num |-> page_num,
          text |-> CleanText(FixJapaneseSpacing(outcome.text))]
    ELSE [raised |-> TRUE, exc |-> outcome.exc, page_num |-> page_num, text |-> <<>>]

ProcessSinglePageOcr(page_num, outcome) ==
    IF outcome.ok
    THEN [raised |-> FALSE, exc |-> NoException, page_num |-> page_num,
          text |-> CleanText(FixJapaneseSpacing(outcome.text))]
    ELSE [raised |-> FALSE, exc |-> NoException, page_num |-> page_num,
          text |-> OcrErrorText(outcome.exc)]

\* As CollectResult, with the dict rebound to a new one holding the result.
CollectResultReplaces(results, page_num, fut) ==
    IF ~fut.raised
    THEN DictSet(EmptyDict, fut.page_num, fut.text)
    ELSE DictSet(EmptyDict, page_num, ThreadingErrorText(fut.exc))

\* As CollectResult, with the results keyed by their order of arrival: the
\* n-th result to arrive is stored for the n-th requested page.
CollectResultByArrival(results, page_num, fut) ==
    LET n == Cardinality(DOMAIN results) + 1
    IN  DictSet(results, ocr_pages[n],
                IF fut.raised THEN ThreadingErrorText(fut.exc) ELSE fut.text)

\* The body of the as_completed loop for one future: the dict after it.
CollectResult(results, page_num, fut) ==
    IF ~fut.raised
    THEN DictSet(results, fut.page_num, fut.text)
    ELSE DictSet(results, page_num, ThreadingErrorText(fut.exc))

\* The write of the as_completed loop for one future, as a record of the
\* writes of each key: both branches write inside `with _results_lock`.
RecordWrite(history, page_num, fut) ==
    LET key == IF ~fut.raised THEN fut.page_num ELSE page_num
    IN  [history EXCEPT ![key] = Append(@, TRUE)]

\* As UpdateResults, updating only the pages that have a result.
UpdateResultsFound(final, results) ==
    [i \in 1..Len(final) |->
        IF final[i].method = OCR_PENDING /\ final[i].page_num \in DOMAIN results
        THEN [page_num |-> final[i].page_num,
              text |-> results[final[i].page_num],
              method |-> OCR]
        ELSE final[i]]

\* Step 3 of extract_text: "Update results with OCR text".
UpdateResults(final, results) ==
    [i \in 1..Len(final) |->
        IF final[i].method = OCR_PENDING
        THEN [page_num |-> final[i].page_num,
              text |-> DictGet(results, final[i].page_num, final[i].text),
              method |-> OCR]
        ELSE final[i]]

OcrPagesCount(final) == Len(SelectSeq(final, LAMBDA r : r.method = OCR_PENDING))

\* As IsTextPart, without `and not text.startswith("[")`.
IsTextPartKeepsMarkers(r) == Truthy(r.text)

\* Step 4 of extract_text: all_text_parts and the text of the report.
IsTextPart(r) == Truthy(r.text) /\ ~StartsWithBracket(r.text)

TextPart(r) ==
    PagePrefix \o Str(r.page_num) \o <<" ", "[">> \o r.method \o <<"]", ":", NL>>
        \o r.text \o <<NL>>

AllTextParts(final) ==
    LET kept == SelectSeq(final, IsTextPart)
    IN  [i \in 1..Len(kept) |-> TextPart(kept[i])]

\* As FileText, without the check of lines 365-366.
FileTextNoSentinel(final) == Join(<<NL>>, AllTextParts(final))

FileText(final) ==
    LET joined == Join(<<NL>>, AllTextParts(final))
    IN  IF Strip(joined) = <<>> THEN NoTextExtracted ELSE joined

\* ----------------------------------------------------------------- actions

NoFutures == [p \in {} |-> None]

\* The image submitted with page_num.
ImageOf(p) == (CHOOSE i \in 1..Len(page_images) : page_images[i].page_num = p)

\* A PDFProcessor was constructed and extract_text is called on one of docs.
Constructed(docs) ==
    /\ doc \in docs
    /\ use_ocr \in BOOLEAN
    /\ min_chars \in Thresholds
    /\ pc = "start"
    /\ response =
           [file_text |-> <<>>, error |-> None,
            metadata |-> [total_pages |-> 0, pdf_pages |-> 0, ocr_pages |-> 0]]
    /\ pdf_pages = <<>>
    /\ ocr_pages = <<>>
    /\ final_results = <<>>
    /\ images = <<>>
    /\ page_images = <<>>
    /\ max_workers = 0
    /\ futures = NoFutures
    /\ ocr_results = EmptyDict
    /\ engine_calls = [p \in 1..MaxPages |-> 0]
    /\ writes = [p \in 1..MaxPages |-> <<>>]

\* No extract_text call is under way.
ExtractIdle ==
    /\ doc = [openable |-> FALSE, pages |-> <<>>]
    /\ use_ocr = FALSE
    /\ min_chars = DEFAULT_MIN_CHARS
    /\ pc = "idle"
    /\ response = <<>>
    /\ pdf_pages = <<>>
    /\ ocr_pages = <<>>
    /\ final_results = <<>>
    /\ images = <<>>
    /\ page_images = <<>>
    /\ max_workers = 0
    /\ futures = NoFutures
    /\ ocr_results = EmptyDict
    /\ engine_calls = [p \in 1..MaxPages |-> 0]
    /\ writes = [p \in 1..MaxPages |-> <<>>]

\* No split_pdf call is under way.
SplitIdle ==
    /\ split_input = <<>>
    /\ split_pc = "idle"
    /\ split_response = <<>>
    /\ split_idx = 0

\* No text is being normalised on its own.
NormalizeIdle ==
    /\ norm_text = <<>>
    /\ norm_pc = "idle"
    /\ norm_result = <<>>

\* No image is being resized on its own.
ResizeIdle ==
    /\ image_size = <<>>
    /\ max_image_dimension = DEFAULT_MAX_IMAGE_DIMENSION
    /\ resize_pc = "idle"
    /\ resized = <<>>

\* No request is in the service.
ServiceIdle ==
    /\ work_queue = <<>>
    /\ blocked = 0
    /\ running = 0
    /\ finished = 0
    /\ arrived = 0
    /\ completed = 0

Init == Constructed(Documents) /\ SplitIdle /\ NormalizeIdle /\ ResizeIdle /\ ServiceIdle

\* The `except Exception` clause of extract_text: the error slot is set and
\* the response is returned; anything else leaves the call by raising.
Abort(e) ==
    IF e.type \in ExceptionSubclasses
    THEN /\ response' = [response EXCEPT !.error = ExtractionFailed(e)]
         /\ pc' = "done"
    ELSE /\ response' = response
         /\ pc' = "raised"

\* Step 1: parse the document, reject a document without pages.
Parse ==
    /\ pc = "start"
    /\ LET got == ParseStep(doc, min_chars)
       IN  IF got.exc # NoException
           THEN /\ Abort(got.exc)
                /\ pdf_pages' = pdf_pages
           ELSE /\ pdf_pages' = got.pages_data
                /\ response' =
                       [response EXCEPT !.metadata.total_pages = Len(got.pages_data)]
                /\ pc' = "classify"
    /\ UNCHANGED <<splitter, normalizer, resizer, service, inputs, ocr_pages, final_results, recognition>>

\* Step 2: identify the pages that need OCR.
Classify ==
    /\ pc = "classify"
    /\ final_results' = [i \in 1..Len(pdf_pages) |-> PendingResult(pdf_pages[i], use_ocr)]
    /\ ocr_pages' = OcrPagesOf(pdf_pages, use_ocr)
    /\ response' =
           [response EXCEPT !.metadata.pdf_pages = PdfPagesCount(pdf_pages, use_ocr)]
    /\ pc' = IF ocr_pages' # <<>> /\ use_ocr THEN "rasterize" ELSE "combine"
    /\ UNCHANGED <<splitter, normalizer, resizer, service, inputs, pdf_pages, recognition>>

\* _extract_text_with_ocr_memory: convert_from_bytes raises.
RasterizeFails ==
    /\ pc = "rasterize"
    /\ Abort(OcrProcessingError(RasterizerError))
    /\ UNCHANGED <<splitter, normalizer, resizer, service, inputs, pdf_pages, ocr_pages, final_results, recognition>>

\* _extract_text_with_ocr_memory: convert_from_bytes returns the images of
\* the first k pages of min_page..max_page, and they are mapped to pages.
Rasterize ==
    /\ pc = "rasterize"
    /\ LET min_page == MinOf(SeqRange(ocr_pages))
           max_page == MaxOf(SeqRange(ocr_pages))
       IN  \E k \in 0..(max_page - min_page + 1) :
              /\ images' = [i \in 1..k |-> min_page + (i - 1)]
              /\ page_images' = PageImages(images', 1, min_page, ocr_pages)
    /\ pc' = "pool"
    /\ UNCHANGED <<splitter, normalizer, resizer, service, inputs, response, pdf_pages, ocr_pages, final_results,
                   max_workers, futures, ocr_results, engine_calls, writes>>

\* _extract_text_with_ocr_memory: the pool is created and one task per
\* (image, page_num) pair is submitted.
SetupPool ==
    /\ pc = "pool"
    /\ \E cpus \in CpuCounts :
          IF cpus = CpuUndetermined
          THEN /\ Abort(OcrProcessingError(CpuCountTypeError))
               /\ UNCHANGED <<max_workers, futures>>
          ELSE LET width == MaxWorkers(cpus, Len(page_images))
               IN  IF width <= 0
                   THEN /\ Abort(OcrProcessingError(MaxWorkersError))
                        /\ UNCHANGED <<max_workers, futures>>
                   ELSE /\ max_workers' = width
                        /\ futures' =
                               [p \in {page_images[i].page_num : i \in 1..Len(page_images)} |->
                                   [state |-> "pending", raised |-> FALSE,
                                    exc |-> NoException, page_num |-> p, text |-> <<>>]]
                        /\ pc' = "workers"
                        /\ response' = response
    /\ UNCHANGED <<splitter, normalizer, resizer, service, inputs, pdf_pages, ocr_pages, final_results, images, page_images,
                   ocr_results, engine_calls, writes>>

InState(st) == {p \in DOMAIN futures : futures[p].state = st}

\* A free worker takes the oldest queued task and runs
\* _process_single_page_ocr on it, up to the call of the engine.
StartTask(p) ==
    /\ pc = "workers"
    /\ p \in InState("pending")
    /\ \A q \in InState("pending") : p <= q
    /\ Cardinality(InState("running")) < max_workers
    /\ futures' = [futures EXCEPT ![p].state = "running"]
    /\ engine_calls' =
           EngineCalls(engine_calls, p, doc.pages[page_images[ImageOf(p)].image].engine)
    /\ UNCHANGED <<splitter, normalizer, resizer, service, inputs, pc, response, pdf_pages, ocr_pages, final_results,
                   images, page_images, max_workers, ocr_results, writes>>

\* A worker finishes _process_single_page_ocr on its page, unless the
\* engine call never returns.
FinishTask(p) ==
    /\ pc = "workers"
    /\ p \in InState("running")
    /\ LET outcome == doc.pages[page_images[ImageOf(p)].image].engine
       IN  /\ outcome # EngineHangs
           /\ futures' = [futures EXCEPT
                              ![p] = [state |-> "done"] @@ ProcessSinglePageOcr(p, outcome)]
    /\ UNCHANGED <<splitter, normalizer, resizer, service, inputs, pc, response, pdf_pages, ocr_pages, final_results,
                   images, page_images, max_workers, ocr_results, engine_calls, writes>>

\* The as_completed loop handles one finished future.
Collect(p) ==
    /\ pc = "workers"
    /\ p \in InState("done")
    /\ ocr_results' = CollectResult(ocr_results, p, futures[p])
    /\ writes' = RecordWrite(writes, p, futures[p])
    /\ futures' = [futures EXCEPT ![p].state = "collected"]
    /\ UNCHANGED <<splitter, normalizer, resizer, service, inputs, pc, response, pdf_pages, ocr_pages, final_results,
                   images, page_images, max_workers, engine_calls>>

\* Every future was handled: _extract_text_with_ocr_memory returns.
ReturnResults ==
    /\ pc = "workers"
    /\ \A p \in DOMAIN futures : futures[p].state = "collected"
    /\ pc' = "update"
    /\ UNCHANGED <<splitter, normalizer, resizer, service, inputs, response, pdf_pages, ocr_pages, final_results, recognition>>

\* Step 3, after the recognition returned: update results with OCR text.
Update ==
    /\ pc = "update"
    /\ final_results' = UpdateResults(final_results, ocr_results)
    /\ response' =
           [response EXCEPT !.metadata.ocr_pages = @ + OcrPagesCount(final_results)]
    /\ pc' = "combine"
    /\ UNCHANGED <<splitter, normalizer, resizer, service, inputs, pdf_pages, ocr_pages, recognition>>

\* Step 4: combine all text into a single string, and return.
Combine ==
    /\ pc = "combine"
    /\ response' = [response EXCEPT !.file_text = FileText(final_results)]
    /\ pc' = "done"
    /\ UNCHANGED <<splitter, normalizer, resizer, service, inputs, pdf_pages, ocr_pages, final_results, recognition>>

Next ==
    \/ Parse
    \/ Classify
    \/ RasterizeFails
    \/ Rasterize
    \/ SetupPool
    \/ \E p \in 1..MaxPages : StartTask(p)
    \/ \E p \in 1..MaxPages : FinishTask(p)
    \/ \E p \in 1..MaxPages : Collect(p)
    \/ ReturnResults
    \/ Update
    \/ Combine

Spec == Init /\ [][Next]_vars

\* extract_text on documents with pages the engine may hang on.
InitHang ==
    Constructed(HangDocuments) /\ SplitIdle /\ NormalizeIdle /\ ResizeIdle /\ ServiceIdle

SpecHang == InitHang /\ [][Next]_vars

\* ------------------------------------------------------ PDFSplitter.split_pdf

\* The largest document split, and the largest pages_per_split asked for.
MaxSplitPages == 10

MaxPerSplit == 4

DotPdf == <<".", "p", "d", "f">>

Report == <<"r", "e", "p", "o", "r", "t">>

\* original_filename, with and without the extension
Filenames == {Report, Report \o DotPdf, <<"a", ".", "p", "d", "f", "x">>}

\* pdf_data as PyPDF2 sees it (whether PdfReader accepts it, and the number
\* of its pages) and the other two arguments.
SplitInputs ==
    {[valid |-> v, total_pages |-> n, pages_per_split |-> k, original_filename |-> f] :
        v \in BOOLEAN, n \in 0..MaxSplitPages, k \in (0 - 1)..MaxPerSplit, f \in Filenames}

\* filename.endswith(suffix)
EndsWith(s, suffix) ==
    /\ Len(s) >= Len(suffix)
    /\ SubSeq(s, Len(s) - Len(suffix) + 1, Len(s)) = suffix

\* PDFSplitter._get_original_filename
GetOriginalFilename(filename) ==
    IF EndsWith(filename, DotPdf) THEN SubSeq(filename, 1, Len(filename) - 4)
    ELSE filename

ZeroDivisionErrorT ==
    <<"Z", "e", "r", "o", "D", "i", "v", "i", "s", "i", "o", "n", "E", "r", "r", "o", "r">>

PdfReadErrorT == <<"P", "d", "f", "R", "e", "a", "d", "E", "r", "r", "o", "r">>

InvalidPdfData == [type |-> ValueErrorT, msg |-> <<"Invalid PDF data">>]

PagesPerSplitError ==
    [type |-> ValueErrorT, msg |-> <<"pages_per_split must be at least 1">>]

NoPagesError == [type |-> ValueErrorT, msg |-> <<"PDF has no pages">>]

\* n // 0
ZeroDivision ==
    [type |-> ZeroDivisionErrorT, msg |-> <<"integer division or modulo by zero">>]

\* writer.add_page / writer.write raising on a page object it cannot copy
WriterFault == [type |-> PdfReadErrorT, msg |-> <<"writer fault">>]

\* f"Validation Error: {str(ve)}"
ValidationError(e) == <<"Validation Error: ">> \o e.msg

\* f"Split Failed: {type(e).__name__} - {str(e)}"
SplitFailed(e) == <<"Split Failed: ">> \o e.type \o <<" - ">> \o e.msg

\* The two except clauses of split_pdf.
SplitExcept(resp, e) ==
    IF e.type = ValueErrorT
    THEN [resp EXCEPT !.error = ValidationError(e)]
    ELSE [resp EXCEPT !.error = SplitFailed(e)]

\* As SplitChecks, with the guard `pages_per_split < 0`.
SplitChecksAllowZero(input) ==
    IF ~input.valid THEN InvalidPdfData
    ELSE IF input.pages_per_split < 0 THEN PagesPerSplitError
    ELSE IF input.total_pages = 0 THEN NoPagesError
    ELSE NoException

\* The three validations of split_pdf, in their order: the exception raised
\* (NoException when all pass).
SplitChecks(input) ==
    IF ~input.valid THEN InvalidPdfData
    ELSE IF input.pages_per_split < 1 THEN PagesPerSplitError
    ELSE IF input.total_pages = 0 THEN NoPagesError
    ELSE NoException

\* As NumSplits, rounding down.
NumSplitsFloor(total_pages, pages_per_split) == total_pages \div pages_per_split

\* (total_pages + pages_per_split - 1) // pages_per_split
NumSplits(total_pages, pages_per_split) ==
    (total_pages + pages_per_split - 1) \div pages_per_split

\* The 0-indexed page range [start_page, end_page) of one split.
StartPage(idx, pages_per_split) == idx * pages_per_split

EndPage(idx, pages_per_split, total_pages) ==
    LET stop == StartPage(idx, pages_per_split) + pages_per_split
    IN  IF stop < total_pages THEN stop ELSE total_pages

\* As SplitFilename, without the extension.
SplitFilenameBare(base_filename, idx) == base_filename \o <<"_">> \o Str(idx + 1)

\* f"{base_filename}_{split_idx + 1}.pdf"
SplitFilename(base_filename, idx) ==
    base_filename \o <<"_">> \o Str(idx + 1) \o DotPdf

\* The entry appended to response["files"] for one split.  The written PDF
\* is the sequence of the pages added to its writer (1 the first page of
\* the original), and its size the number of them.
SplitFile(base_filename, idx, pages_per_split, total_pages) ==
    LET start_page == StartPage(idx, pages_per_split)
        end_page == EndPage(idx, pages_per_split, total_pages)
        split_data == [k \in 1..(end_page - start_page) |-> start_page + k]
    IN  [filename |-> SplitFilename(base_filename, idx),
         file_data |-> split_data,
         pages |-> Str(start_page + 1) \o <<"-">> \o Str(end_page),
         page_count |-> end_page - start_page,
         size_bytes |-> Len(split_data)]

\* split_pdf is called.
SplitCalled ==
    /\ split_input \in SplitInputs
    /\ split_pc = "start"
    /\ split_response =
           [success |-> FALSE, total_pages |-> 0, total_splits |-> 0,
            files |-> <<>>, error |-> None]
    /\ split_idx = 0

\* The validations, the page count and the number of splits.
SplitStart ==
    /\ split_pc = "start"
    /\ LET e == SplitChecks(split_input)
           counted == [split_response EXCEPT !.total_pages = split_input.total_pages]
       IN  IF e # NoException
           THEN /\ split_response' = SplitExcept(split_response, e)
                /\ split_pc' = "done"
           ELSE IF split_input.pages_per_split = 0
           THEN /\ split_response' = SplitExcept(counted, ZeroDivision)
                /\ split_pc' = "done"
           ELSE /\ split_response' =
                       [counted EXCEPT !.total_splits =
                           NumSplits(split_input.total_pages, split_input.pages_per_split)]
                /\ split_pc' = "loop"
    /\ UNCHANGED <<split_input, split_idx, extraction, normalizer, resizer, service>>

\* One iteration of the split loop.
SplitChunk ==
    /\ split_pc = "loop"
    /\ split_idx < split_response.total_splits
    /\ split_response' =
           [split_response EXCEPT !.files =
               Append(@, SplitFile(GetOriginalFilename(split_input.original_filename),
                                   split_idx, split_input.pages_per_split,
                                   split_input.total_pages))]
    /\ split_idx' = split_idx + 1
    /\ UNCHANGED <<split_input, split_pc, extraction, normalizer, resizer, service>>

\* One iteration of the split loop in which the writer raises.
SplitChunkFails ==
    /\ split_pc = "loop"
    /\ split_idx < split_response.total_splits
    /\ split_response' = SplitExcept(split_response, WriterFault)
    /\ split_pc' = "done"
    /\ UNCHANGED <<split_input, split_idx, extraction, normalizer, resizer, service>>

\* The loop is over: response["success"] = True.
SplitFinish ==
    /\ split_pc = "loop"
    /\ split_idx = split_response.total_splits
    /\ split_response' = [split_response EXCEPT !.success = TRUE]
    /\ split_pc' = "done"
    /\ UNCHANGED <<split_input, split_idx, extraction, normalizer, resizer, service>>

InitSplit == ExtractIdle /\ SplitCalled /\ NormalizeIdle /\ ResizeIdle /\ ServiceIdle

NextSplit ==
    \/ SplitStart
    \/ SplitChunk
    \/ SplitChunkFails
    \/ SplitFinish

SpecSplit == InitSplit /\ [][NextSplit]_vars

\* ------------------------------------------- the normalisation on its own

\* The longest text normalised.
MaxTextLen == 5

\* Whitespace, Japanese letters and marks, and a character of neither kind.
TextAlphabet == {" ", NL, "J", "K", ".", "<", "a"}

Texts == UNION {[1..n -> TextAlphabet] : n \in 0..MaxTextLen}

\* A text is handed to the normalisation.
NormalizeCalled ==
    /\ norm_text \in Texts
    /\ norm_pc = "start"
    /\ norm_result = <<>>

\* The text is normalised.
Normalize ==
    /\ norm_pc = "start"
    /\ norm_result' = <<NormalizeText(norm_text)>>
    /\ norm_pc' = "once"
    /\ UNCHANGED <<norm_text, extraction, splitter, resizer, service>>

\* The normalised text is normalised again.
NormalizeAgain ==
    /\ norm_pc = "once"
    /\ norm_result' = Append(norm_result, NormalizeText(norm_result[1]))
    /\ norm_pc' = "twice"
    /\ UNCHANGED <<norm_text, extraction, splitter, resizer, service>>

InitNormalize ==
    ExtractIdle /\ SplitIdle /\ NormalizeCalled /\ ResizeIdle /\ ServiceIdle

NextNormalize ==
    \/ Normalize
    \/ NormalizeAgain

SpecNormalize == InitNormalize /\ [][NextNormalize]_vars

\* ------------------------------------------------- _resize_image_if_needed

\* The arithmetic of _resize_image_if_needed is done on Python floats (IEEE
\* 754 doubles, 53 significant bits, round to nearest, ties to even).  A
\* double is kept as the exact quotient it approximates and its rounding
\* error, which only needs remainders below the divisor.

RECURSIVE Pow2(_)
Pow2(n) == IF n = 0 THEN 1 ELSE 2 * Pow2(n - 1)

\* 2^e <= a / b, for positive a and b
Pow2AtMost(e, a, b) == IF e >= 0 THEN Pow2(e) * b <= a ELSE b <= a * Pow2(0 - e)

\* The exponents of the doubles computed: their values lie between 2^-15
\* and 2^15.
MaxExponent == 15

\* floor(log2(a / b)): the exponent of the double a / b
Exponent(a, b) ==
    CHOOSE e \in (0 - MaxExponent)..MaxExponent : Pow2AtMost(e, a, b) /\ ~Pow2AtMost(e + 1, a, b)

\* (a * 2^j) mod b
RECURSIVE ShiftedRemainder(_, _, _)
ShiftedRemainder(a, b, j) ==
    IF j = 0 THEN a % b ELSE (2 * ShiftedRemainder(a, b, j - 1)) % b

\* The number of fraction bits of the double a / b.
FractionBits(a, b) == 52 - Exponent(a, b)

\* The double a / b is the quotient less d / (b * 2^k), k its fraction bits:
\* d is the remainder left by its 53 bits when they are rounded down, and
\* that remainder less b when they are rounded up.
RoundingError(a, b) ==
    LET k == FractionBits(a, b)
        rem == ShiftedRemainder(a, b, k)
        last_bit == IF 2 * ShiftedRemainder(a, b, k - 1) >= b THEN 1 ELSE 0
    IN  IF 2 * rem < b THEN rem
        ELSE IF 2 * rem > b THEN rem - b
        ELSE IF last_bit = 0 THEN rem ELSE rem - b

\* int(edge * (target / longest)) in doubles.  The exact product is
\* edge * target / longest less edge * d / (longest * 2^k); when the exact
\* quotient is not an integer the error is too small to change its integer
\* part, and when it is an integer n a quotient rounded down leaves the
\* product below n: it is rounded back to n when it is within half a unit
\* in the last place of n, and truncated to n - 1 otherwise.
ScaledEdge(edge, target, longest) ==
    LET n == (edge * target) \div longest
        d == RoundingError(target, longest)
        below == IF \E j \in 0..MaxExponent : Pow2(j) = n THEN Exponent(n, 1) - 1
                 ELSE Exponent(n, 1)
        x == below - Exponent(target, longest) - 1
        falls_short == IF x >= 0 THEN edge * d > longest * Pow2(x)
                       ELSE edge * d * Pow2(0 - x) > longest
    IN  IF (edge * target) % longest # 0 \/ d <= 0 THEN n
        ELSE IF falls_short THEN n - 1 ELSE n

\* image.resize(new_size, ...) raising on an empty size
EmptySizeError == [type |-> ValueErrorT, msg |-> <<"height and width must be > 0">>]

\* The guard of _resize_image_if_needed.
NeedsResize(size, max_dimension) ==
    ~(size[1] <= max_dimension /\ size[2] <= max_dimension)

\* PDFProcessor._resize_image_if_needed: the size of the image it returns,
\* or the exception of image.resize.
ResizeImageIfNeeded(size, max_dimension) ==
    IF ~NeedsResize(size, max_dimension)
    THEN [exc |-> NoException, size |-> size]
    ELSE LET width == size[1]
             height == size[2]
             longest == IF width > height THEN width ELSE height
             new_size == <<ScaledEdge(width, DEFAULT_RESIZED_DIMENSION, longest),
                           ScaledEdge(height, DEFAULT_RESIZED_DIMENSION, longest)>>
         IN  IF new_size[1] < 1 \/ new_size[2] < 1
             THEN [exc |-> EmptySizeError, size |-> new_size]
             ELSE [exc |-> NoException, size |-> new_size]

\* The edges of the images resized: small ones, ones around the target and
\* the default maximum, and larger ones.
ImageEdges == {1, 2, 1000, 1500, 2000, 2999, 3000, 3001, 3773, 4000, 6054}

\* PDFProcessor(max_image_dimension=...): the default and one below the target
MaxImageDimensions == {1000, DEFAULT_MAX_IMAGE_DIMENSION}

\* _resize_image_if_needed is called on an image.
ResizeCalled ==
    /\ image_size \in ImageEdges \X ImageEdges
    /\ max_image_dimension \in MaxImageDimensions
    /\ resize_pc = "start"
    /\ resized = <<>>

Resize ==
    /\ resize_pc = "start"
    /\ resized' = ResizeImageIfNeeded(image_size, max_image_dimension)
    /\ resize_pc' = "done"
    /\ UNCHANGED <<image_size, max_image_dimension, extraction, splitter, normalizer, service>>

InitResize == ExtractIdle /\ SplitIdle /\ NormalizeIdle /\ ResizeCalled /\ ServiceIdle

NextResize == Resize

SpecResize == InitResize /\ [][NextResize]_vars

\* ------------------------------------------------ the service's executor

\* PROCESS_EXECUTOR = ThreadPoolExecutor(max_workers=16)
PROCESS_EXECUTOR_MAX_WORKERS == 16

\* The most requests in the service at once.
MaxRequests == 17

\* The two kinds of work item: a helper (_process_pdf_concurrently,
\* _process_image_concurrently, _split_pdf_concurrently) handed over by an
\* endpoint through run_in_executor, and the extraction or split a helper
\* submits.
Helper == "helper"

Submitted == "submitted"

\* The threads of the executor that are not idle.
Busy == blocked + running

\* An endpoint awaits run_in_executor(PROCESS_EXECUTOR, helper, ...).
RunInExecutor ==
    /\ arrived < MaxRequests
    /\ work_queue' = Append(work_queue, Helper)
    /\ arrived' = arrived + 1
    /\ UNCHANGED <<blocked, running, finished, completed,
                   extraction, splitter, normalizer, resizer>>

\* A free thread takes a helper from the queue: the helper submits its
\* extraction or split to the same executor and blocks in future.result().
HelperSubmitsAndWaits ==
    /\ work_queue # <<>>
    /\ Head(work_queue) = Helper
    /\ Busy < PROCESS_EXECUTOR_MAX_WORKERS
    /\ work_queue' = Append(Tail(work_queue), Submitted)
    /\ blocked' = blocked + 1
    /\ UNCHANGED <<running, finished, arrived, completed,
                   extraction, splitter, normalizer, resizer>>

\* A free thread takes a submitted extraction or split from the queue.
RunSubmitted ==
    /\ work_queue # <<>>
    /\ Head(work_queue) = Submitted
    /\ Busy < PROCESS_EXECUTOR_MAX_WORKERS
    /\ work_queue' = Tail(work_queue)
    /\ running' = running + 1
    /\ UNCHANGED <<blocked, finished, arrived, completed,
                   extraction, splitter, normalizer, resizer>>

\* An extraction or split terminates: its future is done.
SubmittedTerminates ==
    /\ running > 0
    /\ running' = running - 1
    /\ finished' = finished + 1
    /\ UNCHANGED <<work_queue, blocked, arrived, completed,
                   extraction, splitter, normalizer, resizer>>

\* future.result() returns in a helper, and the helper returns.
HelperReturns ==
    /\ finished > 0
    /\ finished' = finished - 1
    /\ blocked' = blocked - 1
    /\ completed' = completed + 1
    /\ UNCHANGED <<work_queue, running, arrived,
                   extraction, splitter, normalizer, resizer>>

\* The steps of the executor's threads.
ExecutorStep ==
    \/ HelperSubmitsAndWaits
    \/ RunSubmitted
    \/ SubmittedTerminates
    \/ HelperReturns

InitService == ExtractIdle /\ SplitIdle /\ NormalizeIdle /\ ResizeIdle /\ ServiceIdle

NextService ==
    \/ RunInExecutor
    \/ HelperSubmitsAndWaits
    \/ RunSubmitted
    \/ SubmittedTerminates
    \/ HelperReturns

SpecService == InitService /\ [][NextService]_vars

\* ------------------------------------------------------------------ claims

\* True when needle occurs in hay as a contiguous run (needle in hay)
Contains(hay, needle) ==
    \E i \in 1..(Len(hay) - Len(needle) + 1) :
        SubSeq(hay, i, i + Len(needle) - 1) = needle

\* The requested page numbers, once the recognition has been called.
Requested == SeqRange(ocr_pages)

\* The recognition has returned its map to extract_text.
RecognizeReturned == pc \in {"update", "combine", "done"} /\ DOMAIN futures # {}

\* The pages the classification found text-rich / in need of recognition.
TextRichPages == {i \in 1..Len(pdf_pages) : pdf_pages[i].is_rich}

NeedsRecognitionPages == {i \in 1..Len(pdf_pages) : ~pdf_pages[i].is_rich}

Classified == pc \notin {"start", "classify", "raised"} /\ pdf_pages # <<>>

\* What the engine does on the image of page p, and the text the task
\* makes of it.
EngineFaultsOn(p) == ~doc.pages[p].engine.ok

RecognizedText(p) == CleanText(FixJapaneseSpacing(doc.pages[p].engine.text))

ReportReturned == pc = "done"

\* C1: for every non-empty set of requested page numbers, whatever the
\* engine outcomes and the number of images the rasterizer returns, the map
\* recognize returns has exactly the requested page numbers as its keys.
C1_KeysAreRequested ==
    (pc = "update") => DOMAIN ocr_results = Requested

\* C2: an engine failure on one page is captured as the error result of
\* that page only: no exception leaves its task, every task that was
\* submitted runs to completion and has its own entry in the map (the error
\* text for a page the engine failed on, the recognized text for the others),
\* and once tasks are submitted the recognition does not raise.
C2_FailureIsolated ==
    /\ \A p \in DOMAIN futures : ~futures[p].raised
    /\ DOMAIN futures # {} => response.error = None
    /\ RecognizeReturned =>
           \A p \in DOMAIN futures :
               /\ futures[p].state = "collected"
               /\ p \in DOMAIN ocr_results
               /\ ocr_results[p] =
                      IF EngineFaultsOn(p) THEN OcrErrorText(EngineFault)
                      ELSE RecognizedText(p)

C2_Witness ==
    /\ RecognizeReturned
    /\ \E p, q \in DOMAIN futures :
          /\ EngineFaultsOn(p)
          /\ ~EngineFaultsOn(q)
          /\ ocr_results[p] = OcrErrorText(EngineFault)
          /\ ocr_results[q] = RecognizedText(q)
          /\ RecognizedText(q) # <<>>

\* The final (text, method) of page p as the inputs and the rasterizer's
\* batch decide it, with no reference to the order of the workers.
PageResult(p) ==
    LET pg == PageData(p, doc.pages[p].extract, min_chars)
    IN  IF pg.is_rich THEN [page_num |-> p, text |-> pg.text, method |-> PDF]
        ELSE IF ~use_ocr
        THEN [page_num |-> p,
              text |-> IF pg.text = <<>> THEN NoTextDetected ELSE pg.text,
              method |-> PDF_ONLY]
        ELSE [page_num |-> p,
              text |-> IF p \in SeqRange(images)
                       THEN IF EngineFaultsOn(p) THEN OcrErrorText(EngineFault)
                            ELSE RecognizedText(p)
                       ELSE pg.text,
              method |-> OCR]

\* "Page <p> [": the start of the segment of page p.
SegmentStart(p) == PagePrefix \o Str(p) \o <<" ", "[">>

\* Where the segment of page p starts in the text (0: nowhere).
PositionOf(text, p) ==
    LET at == {i \in 1..(Len(text) - Len(SegmentStart(p)) + 1) :
                  SubSeq(text, i, i + Len(SegmentStart(p)) - 1) = SegmentStart(p)}
    IN  IF at = {} THEN 0 ELSE MinOf(at)

\* C3: for a fixed document and fixed engine outputs the text of the report
\* is the same under every completion order of the tasks, and its page
\* segments appear in strictly ascending page-number order.
C3_TextIsOrderIndependent ==
    (ReportReturned /\ response.error = None) =>
        /\ response.file_text =
               FileText([p \in 1..Len(doc.pages) |-> PageResult(p)])
        /\ \A p, q \in 1..Len(doc.pages) :
               (p < q /\ PositionOf(response.file_text, p) > 0
                      /\ PositionOf(response.file_text, q) > 0)
                   => PositionOf(response.file_text, p) < PositionOf(response.file_text, q)

C3_Witness ==
    /\ ReportReturned
    /\ response.error = None
    /\ Cardinality(DOMAIN futures) >= 2
    /\ \E p, q \in DOMAIN futures :
          /\ p < q
          /\ PositionOf(response.file_text, p) > 0
          /\ PositionOf(response.file_text, q) > PositionOf(response.file_text, p)
          /\ RecognizedText(p) # RecognizedText(q)

\* C4: classify returns TextRich exactly when the number of non-whitespace
\* characters of the embedded text is >= the threshold, for every text
\* (missing, empty or not) and every configured threshold, whatever the
\* caller's OCR flag.
C4_RichIffThresholdMet ==
    \A i \in 1..Len(pdf_pages) :
        pdf_pages[i].is_rich <=> (Len(RemoveSpaces(pdf_pages[i].text)) >= min_chars)

\* The number of pages of the range handed to the rasterizer.
RequestedSpan == MaxOf(Requested) - MinOf(Requested) + 1

\* C5 as stated: tasks are submitted only for NeedsRecognition pages; with
\* use_recognition=true the number of submitted tasks equals the number of
\* NeedsRecognition pages; with use_recognition=false no task is submitted
\* and neither the rasterizer nor the engine is invoked.
C5_TasksEqualNeedsRecognition ==
    /\ DOMAIN futures \subseteq NeedsRecognitionPages
    /\ (ReportReturned /\ pdf_pages # <<>> /\ use_ocr) =>
           Cardinality(DOMAIN futures) = Cardinality(NeedsRecognitionPages)
    /\ ~use_ocr =>
           /\ DOMAIN futures = {}
           /\ images = <<>>
           /\ pc \in {"start", "classify", "combine", "done"}

\* C5 as amended: the pages handed to the recognition are exactly the
\* NeedsRecognition pages when use_recognition=true and none when it is
\* false; a task is submitted only for such a page, never for a TextRich
\* page; the tasks are all of the NeedsRecognition pages when the rasterizer
\* returned an image for every page of the requested range (they can be
\* fewer, and none when the rasterizer or the pool setup fails); with
\* use_recognition=false no task is submitted and neither the rasterizer nor
\* the engine is invoked.
C5_TasksOnlyForNeedsRecognition ==
    /\ DOMAIN futures \subseteq NeedsRecognitionPages
    /\ Classified => Requested = (IF use_ocr THEN NeedsRecognitionPages ELSE {})
    /\ (DOMAIN futures # {} /\ Len(images) = RequestedSpan) =>
           DOMAIN futures = NeedsRecognitionPages
    /\ ~use_ocr =>
           /\ DOMAIN futures = {}
           /\ images = <<>>
           /\ pc \in {"start", "classify", "combine", "done"}

C5_Witness ==
    /\ ReportReturned
    /\ use_ocr
    /\ TextRichPages # {}
    /\ Cardinality(NeedsRecognitionPages) >= 2
    /\ DOMAIN futures = NeedsRecognitionPages
    /\ \A p \in DOMAIN futures : futures[p].state = "collected"

\* C6: in every report without a document-level error each page has exactly
\* one provenance tag, chosen by its classification and the caller's flag
\* (TextRich: PDF; NeedsRecognition with recognition requested: OCR;
\* NeedsRecognition without: PDF_ONLY); no page is left OCR_PENDING and that
\* tag never appears in the text.
C6_ProvenanceTags ==
    /\ ~Contains(response.file_text, OCR_PENDING)
    /\ (ReportReturned /\ response.error = None) =>
           /\ Len(final_results) = Len(doc.pages)
           /\ \A i \in 1..Len(final_results) :
                 /\ final_results[i].page_num = i
                 /\ final_results[i].method =
                        IF i \in TextRichPages THEN PDF
                        ELSE IF use_ocr THEN OCR
                        ELSE PDF_ONLY

C6_Witness ==
    /\ ReportReturned
    /\ response.error = None
    /\ \E i, j \in 1..Len(final_results) :
          /\ final_results[i].method = PDF
          /\ final_results[j].method = OCR
          /\ j \notin DOMAIN ocr_results
          /\ final_results[j].text # <<>>

\* C7: the caller receives a complete report (error slot empty, every page
\* accounted for) or a document-level error with no partial report: with
\* the error slot set, the report has no page text and no page counts.
C7_CompleteReportOrError ==
    ReportReturned =>
        IF response.error = None
        THEN /\ response.metadata.total_pages = Len(doc.pages)
             /\ response.metadata.pdf_pages + response.metadata.ocr_pages
                    = Len(doc.pages)
             /\ response.file_text # <<>>
        ELSE /\ response.file_text = <<>>
             /\ response.metadata =
                    [total_pages |-> 0, pdf_pages |-> 0, ocr_pages |-> 0]

\* The document was parsed: it opened and has at least one page.
DocumentParsed == doc.openable /\ doc.pages # <<>>

\* The errors of the recognition stage as a whole.
RecognitionStageErrors ==
    {ExtractionFailed(OcrProcessingError(e)) :
        e \in {RasterizerError, CpuCountTypeError, MaxWorkersError}}

OneOfTwoFaulted(p, q) ==
    /\ pc \in {"done", "raised"}
    /\ Requested = {p, q}
    /\ p # q
    /\ DOMAIN futures = {p, q}
    /\ EngineFaultsOn(p)
    /\ ~EngineFaultsOn(q)
    /\ RecognizedText(q) # <<>>

\* C9 as stated: when one of two requested recognition pages raises an
\* engine fault, extract does not raise, the error slot is empty, the other
\* page is reported as Recognized with its recognized text and the faulted
\* page carries an inline error marker in the report.
C9_MarkerInReport ==
    \A p, q \in 1..Len(doc.pages) :
        OneOfTwoFaulted(p, q) =>
            /\ pc = "done"
            /\ response.error = None
            /\ Contains(response.file_text,
                        TextPart([page_num |-> q, text |-> RecognizedText(q),
                                  method |-> OCR]))
            /\ Contains(response.file_text, OcrErrorText(EngineFault))

\* C9 as amended: when one of two requested recognition pages raises an
\* engine fault, extract does not raise, the error slot is empty and both
\* pages are counted as OCR pages; the other page ends as Recognized with its
\* recognized text, the faulted page ends as Recognized with the error
\* marker as its text, and the marker is left out of the text of the report
\* (a page's segment is written only when its text is non-empty and does not
\* begin with "[", which holds for no marker).
C9_MarkerLeftOut ==
    \A p, q \in 1..Len(doc.pages) :
        OneOfTwoFaulted(p, q) =>
            /\ pc = "done"
            /\ response.error = None
            /\ response.metadata.ocr_pages = 2
            /\ final_results[q] =
                   [page_num |-> q, text |-> RecognizedText(q), method |-> OCR]
            /\ final_results[p] =
                   [page_num |-> p, text |-> OcrErrorText(EngineFault), method |-> OCR]
            /\ ~Contains(response.file_text, OcrErrorPrefix)
            /\ PositionOf(response.file_text, p) = 0
            /\ IsTextPart(final_results[q]) <=>
                   Contains(response.file_text, TextPart(final_results[q]))

C9_Witness ==
    \E p, q \in 1..Len(doc.pages) :
        /\ OneOfTwoFaulted(p, q)
        /\ pc = "done"
        /\ Contains(response.file_text, TextPart(final_results[q]))
        /\ final_results[p].text = OcrErrorText(EngineFault)

\* C10: extract on input that cannot be opened, or that parses to zero
\* pages, returns a document-level error and no report with per-page
\* errors; it does not raise and submits no recognition task.
C10_UnparsedIsDocumentError ==
    /\ pc # "raised"
    /\ ~DocumentParsed =>
           /\ pc \in {"start", "done"}
           /\ pdf_pages = <<>>
           /\ final_results = <<>>
           /\ images = <<>>
           /\ DOMAIN futures = {}
           /\ response.file_text = <<>>
           /\ ReportReturned => response.error # None

C10_Witness ==
    /\ ReportReturned
    /\ doc.openable
    /\ doc.pages = <<>>
    /\ response.error = ExtractionFailed(NoPageData)

\* C11: a page whose embedded-text extraction fails does not fail the parse:
\* the page is kept at its own position with no text and classified as
\* needing recognition, every other page keeps its own text and
\* classification, and the page numbers are 1..N, contiguous and increasing.
C11_PageFailureIsolated ==
    (DocumentParsed /\ pc # "start") =>
        /\ response.error # ExtractionFailed(OpenError)
        /\ Len(pdf_pages) = Len(doc.pages)
        /\ \A i \in 1..Len(pdf_pages) :
               LET embedded == doc.pages[i].extract
                   own == IF Truthy(embedded) THEN CleanText(embedded) ELSE <<>>
               IN  /\ pdf_pages[i].page_num = i
                   /\ IF embedded = ExtractRaises
                      THEN /\ pdf_pages[i].text = <<>>
                           /\ ~pdf_pages[i].is_rich
                      ELSE /\ pdf_pages[i].text = own
                           /\ pdf_pages[i].is_rich = IsTextRichPage(own, min_chars)

C11_Witness ==
    /\ pc = "classify"
    /\ Len(pdf_pages) = 3
    /\ doc.pages[2].extract = ExtractRaises
    /\ pdf_pages[1].is_rich
    /\ pdf_pages[3].is_rich
    /\ ~pdf_pages[2].is_rich

\* The engine call on the image of page p never returns.
EngineHangsOn(p) == doc.pages[page_images[ImageOf(p)].image].engine = EngineHangs

\* C12: a recognition task that hangs or is slow delays only its own page's
\* result: the recognize call can always go on to its return, and once it
\* has returned the map has an entry for every submitted page, the result
\* of the task for a page whose task completed and a timeout entry (not a
\* result) for a page whose task did not.
C12_HungTaskDelaysOnlyItsPage ==
    /\ pc = "workers" => ENABLED Next
    /\ RecognizeReturned =>
           \A p \in DOMAIN futures :
              /\ p \in DOMAIN ocr_results
              /\ ~EngineHangsOn(p) <=> ocr_results[p] = RecognizedText(p)

\* split_pdf returned / returned a successful response.
SplitReturned == split_pc = "done"

SplitSucceeded == SplitReturned /\ split_response.success

\* ceil(a / b) for a >= 0 and b >= 1, by its definition.
CeilDiv(a, b) == CHOOSE n \in 0..a : n * b >= a /\ (n - 1) * b < a

\* The pages of the written files, in the order of the files.
RECURSIVE PagesOf(_)
PagesOf(files) ==
    IF files = <<>> THEN <<>> ELSE Head(files).file_data \o PagesOf(Tail(files))

\* C13: for every total_pages >= 1 and pages_per_split >= 1, split_pdf
\* produces exactly ceil(total_pages / pages_per_split) files; each holds at
\* least one and at most pages_per_split pages, only the last may hold
\* fewer, each starts right after the one before it ends, and together they
\* hold the pages 1..total_pages exactly once, without gap or overlap.
C13_ChunksPartitionThePages ==
    SplitSucceeded =>
        LET files == split_response.files
            total == split_input.total_pages
            per == split_input.pages_per_split
        IN  /\ total >= 1 /\ per >= 1
            /\ Len(files) = CeilDiv(total, per)
            /\ split_response.total_splits = Len(files)
            /\ \A i \in 1..Len(files) :
                   /\ Len(files[i].file_data) >= 1
                   /\ Len(files[i].file_data) <= per
                   /\ files[i].page_count = Len(files[i].file_data)
                   /\ i < Len(files) => Len(files[i].file_data) = per
                   /\ i > 1 => files[i].file_data[1] =
                                  files[i - 1].file_data[Len(files[i - 1].file_data)] + 1
            /\ PagesOf(files) = [n \in 1..total |-> n]

C13_Witness ==
    /\ SplitSucceeded
    /\ split_input.total_pages = 9
    /\ split_input.pages_per_split = 4
    /\ Len(split_response.files) = 3
    /\ split_response.files[3].file_data = <<9>>

\* C14: split_pdf with pages_per_split < 1 (zero or negative) fails with
\* the invalid-chunk-size error for every valid document: success is false,
\* the error is returned, and no file is produced.
C14_ChunkSizeBelowOneRejected ==
    (split_input.valid /\ split_input.pages_per_split < 1) =>
        /\ split_pc \in {"start", "done"}
        /\ ~split_response.success
        /\ split_response.files = <<>>
        /\ split_response.total_splits = 0
        /\ SplitReturned =>
               split_response.error = ValidationError(PagesPerSplitError)

C14_Witness ==
    /\ SplitReturned
    /\ split_input.valid
    /\ split_input.total_pages = 3
    /\ split_input.pages_per_split = 0
    /\ split_response.error = ValidationError(PagesPerSplitError)

\* The files are in ascending order of their pages, and the example of the
\* specification has three files holding the pages 1-4, 5-8 and 9-10.
ChunksAscend ==
    LET files == split_response.files
    IN  /\ \A i \in 1..Len(files) :
               files[i].pages =
                   Str(files[i].file_data[1]) \o <<"-">>
                       \o Str(files[i].file_data[Len(files[i].file_data)])
        /\ \A i, j \in 1..Len(files) :
               i < j => files[i].file_data[Len(files[i].file_data)] < files[j].file_data[1]
        /\ (split_input.total_pages = 10 /\ split_input.pages_per_split = 4) =>
               /\ Len(files) = 3
               /\ files[1].pages = <<"1", "-", "4">>
               /\ files[2].pages = <<"5", "-", "8">>
               /\ files[3].pages = <<"9", "-", "1", "0">>

\* C15 as claimed: the files are returned in ascending order and the i-th
\* is named <base_name>_<i>, counting from 1; 10 pages split by 4 under the
\* name "report" give the ranges 1-4, 5-8, 9-10 and the names report_1,
\* report_2, report_3.
C15_ChunksNamedBaseIndex ==
    SplitSucceeded =>
        /\ ChunksAscend
        /\ \A i \in 1..Len(split_response.files) :
               split_response.files[i].filename =
                   GetOriginalFilename(split_input.original_filename) \o <<"_">> \o Str(i)

\* C15, amended: the files are returned in ascending order and the i-th is
\* named <base_name>_<i>.pdf, counting from 1, where base_name is the
\* original filename without one trailing ".pdf"; 10 pages split by 4 under
\* the name "report" give the ranges 1-4, 5-8, 9-10 and the names
\* report_1.pdf, report_2.pdf, report_3.pdf.
C15_ChunksNamedBaseIndexPdf ==
    SplitSucceeded =>
        /\ ChunksAscend
        /\ \A i \in 1..Len(split_response.files) :
               LET name == split_input.original_filename
                   base == IF EndsWith(name, DotPdf)
                           THEN SubSeq(name, 1, Len(name) - Len(DotPdf)) ELSE name
               IN  split_response.files[i].filename = base \o <<"_">> \o Str(i) \o DotPdf

C15_Witness ==
    /\ SplitSucceeded
    /\ split_input.total_pages = 10
    /\ split_input.pages_per_split = 4
    /\ split_input.original_filename = Report
    /\ split_response.files[3].filename =
           <<"r", "e", "p", "o", "r", "t", "_", "3", ".", "p", "d", "f">>
    /\ split_response.files[3].pages = <<"9", "-", "1", "0">>

\* C16: the normalisation (_fix_japanese_spacing, then _clean_text) is
\* idempotent: for every string of whitespace, Japanese letters, Japanese
\* marks and other characters, the empty and the all-whitespace string
\* included, normalising the normalised text gives the same text.
C16_NormalizeIdempotent ==
    norm_pc = "twice" => norm_result[2] = norm_result[1]

\* Position j follows position i of s with nothing but whitespace, and at
\* least one character of it, between them.
SpacedApart(s, i, j) ==
    j > i + 1 /\ \A k \in (i + 1)..(j - 1) : IsSpace(s[k])

\* C19: after the normalisation no whitespace remains between any two
\* adjacent Japanese letters, for runs of any length (three or more letters
\* separated by single spaces included), while a single space between two
\* characters that are not Japanese is left as it is.
C19_NoSpaceBetweenJapanese ==
    norm_pc # "start" =>
        LET out == norm_result[1]
        IN  /\ \A i, j \in 1..Len(out) :
                   (out[i] \in JapaneseLetter /\ out[j] \in JapaneseLetter)
                       => ~SpacedApart(out, i, j)
            /\ norm_text = <<"a", " ", "a">> => out = norm_text

\* A report without document-level error was returned.
CleanReport == ReportReturned /\ response.error = None

\* s begins with prefix.
StartsWith(s, prefix) == Len(s) >= Len(prefix) /\ SubSeq(s, 1, Len(prefix)) = prefix

\* The final text of a page is one of the error markers.
IsErrorMarker(text) ==
    \/ text = NoTextDetected
    \/ StartsWith(text, OcrErrorPrefix)
    \/ StartsWith(text, ThreadingErrorPrefix)

\* The pages of the report with a method among ms.
PagesWithMethod(ms) == {i \in 1..Len(final_results) : final_results[i].method \in ms}

\* C17: a page whose final text is empty or only an error marker has no
\* segment in the text of the report, and is still counted in the metadata:
\* total_pages is the number of pages of the document and the per-method
\* counters count every page, the excluded ones too.
C17_EmptyPagesExcludedButCounted ==
    CleanReport =>
        /\ Len(final_results) = Len(doc.pages)
        /\ \A i \in 1..Len(final_results) :
               (final_results[i].text = <<>> \/ IsErrorMarker(final_results[i].text))
                   => PositionOf(response.file_text, i) = 0
        /\ response.metadata.total_pages = Len(doc.pages)
        /\ response.metadata.pdf_pages = Cardinality(PagesWithMethod({PDF, PDF_ONLY}))
        /\ response.metadata.ocr_pages = Cardinality(PagesWithMethod({OCR}))
        /\ response.metadata.pdf_pages + response.metadata.ocr_pages = Len(doc.pages)

C17_Witness ==
    /\ CleanReport
    /\ Len(final_results) = 3
    /\ final_results[1].text = <<>>
    /\ final_results[2].text = OcrErrorText(EngineFault)
    /\ PositionOf(response.file_text, 3) > 0
    /\ response.metadata.ocr_pages = 3

\* The page contributes a segment to the text of the report.
Contributes(i) == final_results[i].text # <<>> /\ Head(final_results[i].text) # "["

\* C18: in every report without document-level error the text is never
\* empty: when no page contributes text it is the "no text could be
\* extracted" sentinel, and otherwise it is the contributed text.
C18_TextNeverEmpty ==
    CleanReport =>
        /\ response.file_text # <<>>
        /\ Strip(response.file_text) # <<>>
        /\ (\A i \in 1..Len(final_results) : ~Contributes(i))
               <=> response.file_text = NoTextExtracted

C18_Witness ==
    /\ CleanReport
    /\ Len(final_results) = 2
    /\ \A i \in 1..2 : ~Contributes(i)
    /\ final_results[1].text = NoTextDetected
    /\ final_results[2].method = PDF
    /\ response.file_text = NoTextExtracted

\* The recognition call is over: it returned its map, or it raised.
RecognizeEnded ==
    \/ RecognizeReturned
    \/ ReportReturned /\ response.error \in RecognitionStageErrors

Executing == InState("running")

\* The numbers of logical cores os.cpu_count() can report.
LogicalCores == CpuCounts \ {CpuUndetermined}

TaskResult(p) ==
    IF EngineFaultsOn(p) THEN OcrErrorText(EngineFault) ELSE RecognizedText(p)

\* C22: in every interleaving of the workers each page-number key of the
\* shared results dict is written exactly once, every write happens under
\* the results lock, and no write overwrites or removes the entry of another
\* page, so that the final dict is the same for every order of the writes.
C22_KeysWrittenOnceUnderLock ==
    /\ \A p \in 1..MaxPages :
           /\ Len(writes[p]) <= 1
           /\ \A k \in 1..Len(writes[p]) : writes[p][k]
           /\ writes[p] # <<>> <=> p \in DOMAIN ocr_results
    /\ DOMAIN ocr_results = InState("collected")
    /\ \A p \in DOMAIN ocr_results : ocr_results[p] = TaskResult(p)
    /\ RecognizeReturned =>
           /\ ocr_results = [p \in DOMAIN futures |-> TaskResult(p)]
           /\ \A p \in DOMAIN futures : Len(writes[p]) = 1

C22_Witness ==
    /\ RecognizeReturned
    /\ Cardinality(DOMAIN ocr_results) = 3
    /\ \A p \in 1..3 : writes[p] = <<TRUE>>
    /\ ocr_results[1] # ocr_results[2]
    /\ ocr_results[2] # ocr_results[3]

\* The rasterizer was called and returned its batch.
Rasterized ==
    \/ pc \in {"pool", "workers", "update"}
    \/ pc \in {"combine", "done"} /\ images # <<>>

\* The rasterizer returned an image for every page of the range it was given.
FullBatch == Rasterized /\ Len(images) = RequestedSpan

\* C23 as claimed: only the requested page numbers are rasterized: for every
\* requested set, the non-contiguous ones included, the set of pages
\* rasterized is the requested set, and each task pairs page number p with
\* the image of page p.
C23_RasterizesOnlyRequested ==
    FullBatch =>
        /\ SeqRange(images) = Requested
        /\ \A i \in 1..Len(page_images) :
               page_images[i].image = page_images[i].page_num

\* C23, amended: the pages from the smallest to the largest requested page
\* number are rasterized in one batch, the pages between them that were not
\* requested included; a task is submitted only for a requested page, and it
\* pairs page number p with the image of page p.
C23_RasterizesRequestedRange ==
    Rasterized =>
        /\ SeqRange(images) \subseteq MinOf(Requested)..MaxOf(Requested)
        /\ FullBatch =>
               /\ SeqRange(images) = MinOf(Requested)..MaxOf(Requested)
               /\ Requested \subseteq SeqRange(images)
        /\ {page_images[i].page_num : i \in 1..Len(page_images)} =
               SeqRange(images) \cap Requested
        /\ \A i \in 1..Len(page_images) :
               page_images[i].image = page_images[i].page_num

C23_Witness ==
    /\ pc = "workers"
    /\ Requested = {1, 3}
    /\ images = <<1, 2, 3>>
    /\ Len(page_images) = 2
    /\ page_images[2] = [image |-> 3, page_num |-> 3]

\* The longer edge of a size.
LongEdge(size) == IF size[1] > size[2] THEN size[1] ELSE size[2]

\* C24: before recognition, an image whose width or height exceeds the
\* maximum dimension (3000 by default) is downscaled, its aspect ratio
\* preserved up to integer truncation, so that its long edge equals the
\* target dimension (2000); an image with both edges within the maximum
\* keeps its size.
C24_DownscaledToTarget ==
    (resize_pc = "done" /\ max_image_dimension = DEFAULT_MAX_IMAGE_DIMENSION) =>
        /\ resized.exc = NoException
        /\ IF LongEdge(image_size) <= DEFAULT_MAX_IMAGE_DIMENSION
           THEN resized.size = image_size
           ELSE /\ LongEdge(resized.size) = DEFAULT_RESIZED_DIMENSION
                /\ \A i \in 1..2 :
                       /\ resized.size[i] * LongEdge(image_size)
                              <= image_size[i] * DEFAULT_RESIZED_DIMENSION
                       /\ image_size[i] * DEFAULT_RESIZED_DIMENSION
                              < (resized.size[i] + 1) * LongEdge(image_size)

\* C30: for every image size and every configured max_image_dimension, the
\* values below the target of 2000 included, the image returned by
\* _resize_image_if_needed has a width and a height of at least 1 and no
\* larger than those of the input: resizing never enlarges an image and
\* never produces an edge of size zero.
C30_NeverEnlargesNorEmpties ==
    resize_pc = "done" =>
        /\ resized.exc = NoException
        /\ \A i \in 1..2 :
               /\ resized.size[i] >= 1
               /\ resized.size[i] <= image_size[i]

\* C25: every request routed through the shared 16-thread executor
\* eventually completes, for any number of concurrent requests, provided
\* each extraction or split terminates: while a request is in the service
\* some thread of the executor can take a step, so that no state is reached
\* in which all threads wait on work that is still queued.
C25_ExecutorNeverStarves ==
    arrived > completed => ENABLED ExecutorStep

\* The number of places of the text at which the segment of page i, with its
\* page number, method tag and final text, stands.
SegmentCount(text, i) ==
    LET seg == TextPart(final_results[i])
    IN  Cardinality({k \in 1..(Len(text) - Len(seg) + 1) :
                        SubSeq(text, k, k + Len(seg) - 1) = seg})

\* C26: in a report without document-level error every page whose final
\* text is non-empty and is not an error marker appears exactly once in the
\* text of the report, with its page number and method tag: a page is never
\* dropped because of the character its text begins with.
C26_TextPagesNeverDropped ==
    CleanReport =>
        \A i \in 1..Len(final_results) :
            (final_results[i].text # <<>> /\ ~IsErrorMarker(final_results[i].text))
                => SegmentCount(response.file_text, i) = 1

\* C27: in every report without document-level error a page tagged "OCR"
\* carries the text the recognition stage produced for its page number (the
\* recognized text or its error marker), never the page's embedded text,
\* also when the result map has no entry for the page.
C27_OcrPagesCarryRecognitionText ==
    CleanReport =>
        \A i \in 1..Len(final_results) :
            final_results[i].method = OCR
                => final_results[i].text = TaskResult(i)

\* C28: in every report without document-level error the counters of the
\* metadata satisfy pdf_pages + ocr_pages = total_pages = the number of pages
\* of the document; ocr_pages is the number of pages that need recognition
\* when recognition was requested, and 0 when it was not.
C28_CountersAddUp ==
    CleanReport =>
        /\ response.metadata.total_pages = Len(doc.pages)
        /\ response.metadata.pdf_pages + response.metadata.ocr_pages
               = response.metadata.total_pages
        /\ response.metadata.ocr_pages =
               IF use_ocr THEN Cardinality(NeedsRecognitionPages) ELSE 0

C28_Witness ==
    /\ CleanReport
    /\ use_ocr
    /\ Len(doc.pages) = 3
    /\ Cardinality(NeedsRecognitionPages) = 2
    /\ response.metadata.ocr_pages = 2
    /\ response.metadata.pdf_pages = 1
    /\ Len(images) = 3

\* The same without recognition: the pages that would need it are counted
\* as pdf_pages.
C28_WitnessNoOcr ==
    /\ CleanReport
    /\ ~use_ocr
    /\ Cardinality(NeedsRecognitionPages) = 2
    /\ response.metadata.ocr_pages = 0
    /\ response.metadata.pdf_pages = 3

\* The sum of the page_count values of the files.
RECURSIVE PageCountSum(_)
PageCountSum(files) ==
    IF files = <<>> THEN 0 ELSE Head(files).page_count + PageCountSum(Tail(files))

\* C29: split_pdf never returns a partial result. success is true exactly
\* when error is None; on success the number of files is total_splits and
\* their page counts sum to total_pages; when an error is returned at any
\* point, a failure to serialize a later chunk included, files is empty and
\* total_splits is 0.
C29_NoPartialSplit ==
    SplitReturned =>
        /\ split_response.success <=> split_response.error = None
        /\ split_response.success =>
               /\ Len(split_response.files) = split_response.total_splits
               /\ PageCountSum(split_response.files) = split_response.total_pages
        /\ split_response.error # None =>
               /\ split_response.files = <<>>
               /\ split_response.total_splits = 0

====
